---- MODULE Spec2Model ----
(***************************************************************************)
(* Semgrep triage panel: the extension host's SemgrepResultsPanel (the     *)
(* store of the three buckets), the two commands of the extension, the     *)
(* webview script (the display) and the files they read and write.         *)
(*                                                                         *)
(* JavaScript values are modelled as tagged records (JNull, JStr, JArr,    *)
(* JObj, Undefined), file contents as sequences of JSON tokens, and        *)
(* JSON.stringify / JSON.parse as a printer and a recursive-descent parser *)
(* between the two.  Property order inside an object is not modelled (an   *)
(* object is a function from its keys); whitespace is not a token.         *)
(***************************************************************************)
EXTENDS Integers, Sequences, FiniteSets, TLC

(***************************************************************************)
(* Bounds of the model.                                                    *)
(***************************************************************************)
\* longest `results` array of a results file the user can open
MaxLen == 2
\* number of user commands (open, click, close) in one run
MaxCmds == 3

(***************************************************************************)
(* JavaScript / JSON values.                                               *)
(***************************************************************************)
JNull == [t |-> "null"]
Undefined == [t |-> "undefined"]
JStr(s) == [t |-> "str", s |-> s]
JArr(seq) == [t |-> "arr", a |-> seq]
JObj(f) == [t |-> "obj", o |-> f]
NoProps == [k \in {} |-> JNull]

IsArr(x) == x.t = "arr"
IsObj(x) == x.t = "obj"
\* JavaScript truthiness of a JSON value (the empty string is the only falsy string)
Truthy(x) == ~(x.t \in {"null", "undefined"}) /\ ~(x.t = "str" /\ x.s = "")

\* o[k] for a value o that is neither null nor undefined
GetProp(o, k) ==
    IF IsObj(o) /\ k \in DOMAIN o.o THEN o.o[k] ELSE Undefined

\* the order in which the printer emits the keys of an object
KeyOrder == <<"results", "untriaged", "issues", "falsePositives", "body", "id">>

Tok(k) == [k |-> k, s |-> ""]
StrTok(s) == [k |-> "str", s |-> s]

RECURSIVE Stringify(_)
RECURSIVE StringifyElems(_, _)
RECURSIVE StringifyMembers(_, _, _)

StringifyElems(seq, i) ==
    IF i > Len(seq) THEN <<>>
    ELSE (IF i > 1 THEN <<Tok(",")>> ELSE <<>>)
         \o Stringify(seq[i]) \o StringifyElems(seq, i + 1)

StringifyMembers(f, i, first) ==
    IF i > Len(KeyOrder) THEN <<>>
    ELSE IF KeyOrder[i] \in DOMAIN f
         THEN (IF first THEN <<>> ELSE <<Tok(",")>>)
              \o <<StrTok(KeyOrder[i]), Tok(":")>> \o Stringify(f[KeyOrder[i]])
              \o StringifyMembers(f, i + 1, FALSE)
         ELSE StringifyMembers(f, i + 1, first)

\* JSON.stringify(x, null, 2) of a JSON value
Stringify(x) ==
    CASE x.t = "null" -> <<Tok("null")>>
      [] x.t = "str"  -> <<StrTok(x.s)>>
      [] x.t = "arr"  -> <<Tok("[")>> \o StringifyElems(x.a, 1) \o <<Tok("]")>>
      [] x.t = "obj"  -> <<Tok("{")>> \o StringifyMembers(x.o, 1, TRUE) \o <<Tok("}")>>

ParseFail == [ok |-> FALSE, val |-> JNull, next |-> 0]
ParseOk(v, n) == [ok |-> TRUE, val |-> v, next |-> n]
Kind(toks, i) == IF i <= Len(toks) THEN toks[i].k ELSE "eof"

RECURSIVE ParseValue(_, _)
RECURSIVE ParseElems(_, _, _)
RECURSIVE ParseMembers(_, _, _)

\* after '[' value : (',' value)* ']'
ParseElems(toks, i, acc) ==
    LET e == ParseValue(toks, i) IN
    IF ~e.ok THEN ParseFail
    ELSE CASE Kind(toks, e.next) = "," -> ParseElems(toks, e.next + 1, Append(acc, e.val))
           [] Kind(toks, e.next) = "]" -> ParseOk(JArr(Append(acc, e.val)), e.next + 1)
           [] OTHER -> ParseFail

\* after '{' : string ':' value (',' string ':' value)* '}' ; a repeated key keeps its last value
ParseMembers(toks, i, acc) ==
    IF Kind(toks, i) # "str" \/ Kind(toks, i + 1) # ":" THEN ParseFail
    ELSE LET e == ParseValue(toks, i + 2)
             f == (toks[i].s :> e.val) @@ acc
         IN IF ~e.ok THEN ParseFail
            ELSE CASE Kind(toks, e.next) = "," -> ParseMembers(toks, e.next + 1, f)
                   [] Kind(toks, e.next) = "}" -> ParseOk(JObj(f), e.next + 1)
                   [] OTHER -> ParseFail

ParseValue(toks, i) ==
    CASE Kind(toks, i) = "null" -> ParseOk(JNull, i + 1)
      [] Kind(toks, i) = "str"  -> ParseOk(JStr(toks[i].s), i + 1)
      [] Kind(toks, i) = "["    ->
            IF Kind(toks, i + 1) = "]" THEN ParseOk(JArr(<<>>), i + 2)
            ELSE ParseElems(toks, i + 1, <<>>)
      [] Kind(toks, i) = "{"    ->
            IF Kind(toks, i + 1) = "}" THEN ParseOk(JObj(NoProps), i + 2)
            ELSE ParseMembers(toks, i + 1, NoProps)
      [] OTHER -> ParseFail

\* JSON.parse(content): the value, or a SyntaxError (ok = FALSE)
Parse(toks) ==
    LET r == ParseValue(toks, 1) IN
    IF r.ok /\ r.next = Len(toks) + 1 THEN r ELSE ParseFail

(***************************************************************************)
(* The store: SemgrepResultsPanel._results and the operations on it.       *)
(***************************************************************************)
Buckets == {"untriaged", "issues", "falsePositives"}

\* `item-${index}`
ItemId(index) == "item-" \o ToString(index)

\* the own properties `...r` copies: those of an object, none of null
Spread(r) == IF IsObj(r) THEN r.o ELSE NoProps

\* mutant: { id: `item-${index}`, ...r }, an id of r's own wins
WithIdFirst(r, index) == JObj(Spread(r) @@ ("id" :> JStr(ItemId(index))))

\* { ...r, id: `item-${index}` }
WithId(r, index) == JObj(("id" :> JStr(ItemId(index))) @@ Spread(r))

\* the constructor's _results for the array `results`
Ingest(results) ==
    JObj([untriaged |-> JArr([i \in 1..Len(results) |-> WithId(results[i], i - 1)]),
          issues |-> JArr(<<>>),
          falsePositives |-> JArr(<<>>)])

\* the webview script's initial `results`
EmptyView ==
    JObj([untriaged |-> JArr(<<>>), issues |-> JArr(<<>>), falsePositives |-> JArr(<<>>)])

RECURSIVE FindIndexFrom(_, _, _)
\* arr.findIndex(r => r.id === id) from position i on: the (1-based) position
\* found, 0 for -1, or "throws" when the scan reads .id of null
FindIndexFrom(arr, id, i) ==
    IF i > Len(arr) THEN 0
    ELSE IF arr[i].t \in {"null", "undefined"} THEN -1
    ELSE IF GetProp(arr[i], "id") = JStr(id) THEN i
    ELSE FindIndexFrom(arr, id, i + 1)

FindIndex(arr, id) == FindIndexFrom(arr, id, 1)

\* arr after arr.splice(index, 1)
Splice(arr, index) ==
    [i \in 1..(Len(arr) - 1) |-> IF i < index THEN arr[i] ELSE arr[i + 1]]

\* o with o[k] = v
SetProp(o, k, v) == JObj((k :> v) @@ o.o)

TriageOutcome(res, threw, posted) == [res |-> res, threw |-> threw, posted |-> posted]

\* mutant: the item is pushed to `to` and not spliced out of `from`
HandleTriageKeep(res, id, from, to) ==
    IF res.t \in {"null", "undefined"} THEN TriageOutcome(res, TRUE, FALSE)
    ELSE LET src == GetProp(res, from) IN
    IF ~IsArr(src) THEN TriageOutcome(res, TRUE, FALSE)
    ELSE LET index == FindIndex(src.a, id) IN
    IF index = -1 THEN TriageOutcome(res, TRUE, FALSE)
    ELSE IF index = 0 THEN TriageOutcome(res, FALSE, FALSE)
    ELSE LET dst == GetProp(res, to)
         IN IF ~IsArr(dst) THEN TriageOutcome(res, TRUE, FALSE)
            ELSE TriageOutcome(SetProp(res, to, JArr(Append(dst.a, src.a[index]))), FALSE, TRUE)

\* mutant: no `index === -1` return, so splice(-1, 1) takes the last element
HandleTriageLast(res, id, from, to) ==
    IF res.t \in {"null", "undefined"} THEN TriageOutcome(res, TRUE, FALSE)
    ELSE LET src == GetProp(res, from) IN
    IF ~IsArr(src) THEN TriageOutcome(res, TRUE, FALSE)
    ELSE LET found == FindIndex(src.a, id) IN
    IF found = -1 THEN TriageOutcome(res, TRUE, FALSE)
    ELSE LET index == IF found = 0 THEN Len(src.a) ELSE found
             item == IF index = 0 THEN Undefined ELSE src.a[index]
             res1 == IF index = 0 THEN res ELSE SetProp(res, from, JArr(Splice(src.a, index)))
             dst  == GetProp(res1, to)
         IN IF ~IsArr(dst) THEN TriageOutcome(res1, TRUE, FALSE)
            ELSE TriageOutcome(SetProp(res1, to, JArr(Append(dst.a, item))), FALSE, TRUE)

\* mutant: unshift instead of push
HandleTriageFront(res, id, from, to) ==
    IF res.t \in {"null", "undefined"} THEN TriageOutcome(res, TRUE, FALSE)
    ELSE LET src == GetProp(res, from) IN
    IF ~IsArr(src) THEN TriageOutcome(res, TRUE, FALSE)
    ELSE LET index == FindIndex(src.a, id) IN
    IF index = -1 THEN TriageOutcome(res, TRUE, FALSE)
    ELSE IF index = 0 THEN TriageOutcome(res, FALSE, FALSE)
    ELSE LET item == src.a[index]
             res1 == SetProp(res, from, JArr(Splice(src.a, index)))
             dst  == GetProp(res1, to)
         IN IF ~IsArr(dst) THEN TriageOutcome(res1, TRUE, FALSE)
            ELSE TriageOutcome(SetProp(res1, to, JArr(<<item>> \o dst.a)), FALSE, TRUE)

\* _handleTriage({id, from, to}) on _results = res: the _results it leaves,
\* whether it threw, and whether it posted updateView
HandleTriage(res, id, from, to) ==
    IF res.t \in {"null", "undefined"} THEN TriageOutcome(res, TRUE, FALSE)
    ELSE LET src == GetProp(res, from) IN
    IF ~IsArr(src) THEN TriageOutcome(res, TRUE, FALSE)
    ELSE LET index == FindIndex(src.a, id) IN
    IF index = -1 THEN TriageOutcome(res, TRUE, FALSE)
    ELSE IF index = 0 THEN TriageOutcome(res, FALSE, FALSE)
    ELSE LET item == src.a[index]
             res1 == SetProp(res, from, JArr(Splice(src.a, index)))
             dst  == GetProp(res1, to)
         IN IF ~IsArr(dst) THEN TriageOutcome(res1, TRUE, FALSE)
            ELSE TriageOutcome(SetProp(res1, to, JArr(Append(dst.a, item))), FALSE, TRUE)

(***************************************************************************)
(* Files the user can choose in the dialogs.                               *)
(***************************************************************************)
\* a file: whether it can be read, and its text.  `src` is history, kept for
\* the file a save wrote: the _results of the store that wrote it, as it was
\* when that store took up the save command
File(readable, text) == [readable |-> readable, text |-> text, src |-> JNull]
WrittenFile(text, snap) == [readable |-> TRUE, text |-> text, src |-> snap]

\* the i-th element of the `results` array of a results file: findings with
\* bodies a, b, a, ..., every second one already carrying an id of its own,
\* the id ingest gives the first element
RawItem(i) ==
    IF i % 2 = 1 THEN JObj([body |-> JStr("a")])
    ELSE JObj([body |-> JStr("b"), id |-> JStr("item-0")])

\* results files with a `results` array of 0..MaxLen elements
ResultsFile(n) == File(TRUE, Stringify(JObj([results |-> JArr([i \in 1..n |-> RawItem(i)])])))

GoodResultsFiles == {ResultsFile(n) : n \in 0..MaxLen}

\* a file that is not JSON, and JSON documents without a `results` array:
\* null, {} and {"results": "a"}
BadResultsFiles ==
    {File(TRUE, <<Tok("{"), StrTok("results")>>),
     File(TRUE, Stringify(JNull)),
     File(TRUE, Stringify(JObj(NoProps))),
     File(TRUE, Stringify(JObj([results |-> JStr("a")])))}

ResultsFiles == GoodResultsFiles \cup BadResultsFiles

\* JSON.parse of the text of each of these files
ParsedResultsFile == [f \in ResultsFiles |-> Parse(f.text)]

Finding(body, index) == JObj([body |-> JStr(body), id |-> JStr(ItemId(index))])

\* progress files not written by this session, by name: one that is not JSON,
\* and a document that has no key `issues` and lists one id in two buckets
ForeignFiles ==
    [garbage |-> File(TRUE, <<Tok("{"), StrTok("untriaged"), Tok(":")>>),
     nokey   |-> File(TRUE, Stringify(JObj([untriaged |-> JArr(<<Finding("a", 0)>>),
                                            falsePositives |-> JArr(<<Finding("a", 0)>>)])))]

\* the path the save dialog proposes: semgrep_triage_progress.json
SavedName == "saved"
NoFile == File(FALSE, <<>>)

\* ids a triage message can carry: those ingest assigns, and one it never assigns
TriageIds == {ItemId(i) : i \in 0..(MaxLen - 1)} \cup {"item-99"}

\* positions of a goTo message
Coords == {-1, 0, 1, 2}

(***************************************************************************)
(* State.                                                                  *)
(***************************************************************************)
VARIABLES
    stores,        \* every SemgrepResultsPanel constructed so far, in order
    currentPanel,  \* SemgrepResultsPanel.currentPanel: an index of stores, 0 for undefined
    view,          \* the webview page: whether the panel is open, whether its
                   \* script has run, and the script's `results`
    toView,        \* updateView messages posted and not yet received by the page
    disk,          \* the progress file written by save
    notice,        \* what the handlers run by the last step did, in order
    cmds           \* number of user commands so far

vars == <<stores, currentPanel, view, toView, disk, notice, cmds>>

\* a _saveProgress or _loadProgress suspended at its awaits (the dialog, then
\* the file operation), with the `data` of a save.  Nothing the handler does
\* between the two awaits is visible, so they are one suspension that ends
\* when the dialog is dismissed or the file operation settles.  `snap` is
\* history: the store's _results when it took up the command
Idle == [op |-> "none", data |-> JNull, snap |-> JNull]
Task(op, data, snap) == [op |-> op, data |-> data, snap |-> snap]

\* a store: _results, whether its listeners are still registered on the panel
\* (_disposables not yet disposed), its pending save or load, and whether a
\* load has assigned _results
NewStore(panel, results) ==
    [panel |-> panel, results |-> Ingest(results), listening |-> TRUE,
     task |-> Idle, loaded |-> FALSE]

\* no panel: `panel` counts the panels created so far
ClosedView(panel) == [open |-> FALSE, panel |-> panel, booted |-> FALSE, results |-> EmptyView]
\* the page after webview.html is set: the script has not run yet
FreshView(panel) == [open |-> TRUE, panel |-> panel, booted |-> FALSE, results |-> EmptyView]

\* what one handler did, `by` being its store (0: a command of the extension):
\* the message it showed to the user; for _handleTriage "moved", "not found"
\* (its early return) or "uncaught" (an error thrown out of the handler); for
\* a dialog that resolves with undefined "dismissed"
Note(by, msg) == [by |-> by, msg |-> msg]

Max(a, b) == IF a >= b THEN a ELSE b

Listeners == {s \in DOMAIN stores : stores[s].listening}

RECURSIVE Flatten(_, _)
\* f[i] \o f[i+1] \o ... for a sequence f of sequences
Flatten(f, i) == IF i > Len(f) THEN <<>> ELSE f[i] \o Flatten(f, i + 1)

Init ==
    /\ stores = <<>>
    /\ currentPanel = 0
    /\ view = ClosedView(0)
    /\ toView = <<>>
    /\ disk = NoFile
    /\ notice = <<>>
    /\ cmds = 0

UserCommand == cmds < MaxCmds /\ cmds' = cmds + 1

(***************************************************************************)
(* The extension's commands.                                               *)
(***************************************************************************)
\* mutant: an existing panel is only revealed, its store kept
CreateOrShowKeep(results) ==
    /\ IF currentPanel # 0
       THEN /\ stores' = stores
            /\ view' = view
            /\ currentPanel' = currentPanel
       ELSE /\ stores' = Append(stores, NewStore(view.panel + 1, results))
            /\ view' = FreshView(view.panel + 1)
            /\ currentPanel' = Len(stores) + 1
    /\ UNCHANGED <<toView, disk>>

\* SemgrepResultsPanel.createOrShow(extensionUri, results, filePath)
CreateOrShow(results) ==
    /\ IF currentPanel # 0
       THEN \* reuse the current store's panel for a new store
            /\ stores' = Append(stores, NewStore(stores[currentPanel].panel, results))
            /\ view' = FreshView(stores[currentPanel].panel)
       ELSE \* createWebviewPanel
            /\ stores' = Append(stores, NewStore(view.panel + 1, results))
            /\ view' = FreshView(view.panel + 1)
    /\ currentPanel' = Len(stores) + 1
    /\ UNCHANGED <<toView, disk>>

\* semgrep-triage.openResults with the dialog abandoned
OpenResultsCancel ==
    /\ UserCommand
    /\ notice' = <<Note(0, "dismissed")>>
    /\ UNCHANGED <<stores, currentPanel, view, toView, disk>>

\* mutant: a document without a `results` array opens an empty session
\* (resultsJson.results || [])
OpenResultsLenient(f, ok) ==
    /\ UserCommand
    /\ LET parsed == ParsedResultsFile[f]
           resultsJson == parsed.val
       IN IF ~ok \/ ~parsed.ok
          THEN /\ notice' = <<Note(0, "Failed to read or parse file")>>
               /\ UNCHANGED <<stores, currentPanel, view, toView, disk>>
          ELSE IF Truthy(resultsJson) /\ IsArr(GetProp(resultsJson, "results"))
          THEN /\ CreateOrShow(GetProp(resultsJson, "results").a)
               /\ notice' = <<>>
          ELSE /\ CreateOrShow(<<>>)
               /\ notice' = <<>>

\* semgrep-triage.openResults with file f chosen; readFile resolves (ok) or rejects
OpenResults(f, ok) ==
    /\ UserCommand
    /\ LET parsed == ParsedResultsFile[f]
           resultsJson == parsed.val
       IN IF ~ok \/ ~parsed.ok
          THEN /\ notice' = <<Note(0, "Failed to read or parse file")>>
               /\ UNCHANGED <<stores, currentPanel, view, toView, disk>>
          ELSE IF Truthy(resultsJson) /\ IsArr(GetProp(resultsJson, "results"))
          THEN /\ CreateOrShow(GetProp(resultsJson, "results").a)
               /\ notice' = <<>>
          ELSE /\ notice' = <<Note(0, "Invalid Semgrep results format")>>
               /\ UNCHANGED <<stores, currentPanel, view, toView, disk>>

\* semgrep-triage.openEmpty
OpenEmpty ==
    /\ UserCommand
    /\ CreateOrShow(<<>>)
    /\ notice' = <<>>

(***************************************************************************)
(* The webview script and the store's message handlers.  A message the     *)
(* page posts is dispatched, in the same step, to the onDidReceiveMessage  *)
(* listener of every store still registered on the panel, in the order of  *)
(* registration; messages to the page wait in toView.                      *)
(***************************************************************************)
\* updateView messages the listening stores post, f[s] being those of store s
Posts(f) == Flatten([s \in DOMAIN stores |-> IF stores[s].listening THEN f[s] ELSE <<>>], 1)

\* the script's last line posts 'initialized'; each store answers with
\* _sendInitialData
ViewBoot ==
    /\ view.open /\ ~view.booted
    /\ view' = [view EXCEPT !.booted = TRUE]
    /\ toView' = toView \o Posts([s \in DOMAIN stores |-> <<stores[s].results>>])
    /\ notice' = <<>>
    /\ UNCHANGED <<stores, currentPanel, disk, cmds>>

\* the page receives the oldest updateView: results = message.data.  A message
\* that arrives before the script has registered its listener is lost
ViewReceive ==
    /\ toView # <<>>
    /\ toView' = Tail(toView)
    /\ view' = IF view.booted THEN [view EXCEPT !.results = Head(toView)] ELSE view
    /\ notice' = <<>>
    /\ UNCHANGED <<stores, currentPanel, disk, cmds>>

\* triageItem(id, from, to) in the page, _handleTriage in each store
ClickTriage(id, from, to) ==
    /\ UserCommand
    /\ view.open /\ view.booted
    /\ LET out == [s \in DOMAIN stores |->
                     HandleTriage(stores[s].results, id, from, to)]
       IN /\ stores' = [s \in DOMAIN stores |->
                          IF stores[s].listening
                          THEN [stores[s] EXCEPT !.results = out[s].res]
                          ELSE stores[s]]
          /\ toView' = toView \o
               Posts([s \in DOMAIN stores |-> IF out[s].posted THEN <<out[s].res>> ELSE <<>>])
          /\ notice' = Posts([s \in DOMAIN stores |->
                                <<Note(s, IF out[s].threw THEN "uncaught"
                                          ELSE IF out[s].posted THEN "moved"
                                          ELSE "not found")>>])
    /\ UNCHANGED <<currentPanel, view, disk>>

\* mutant: no Math.max
GoToPositionNoClamp(line, col) == [line |-> line - 1, col |-> col - 1]

\* the editor position _goToLocation selects for {line, col}
GoToPosition(line, col) == [line |-> Max(0, line - 1), col |-> Max(0, col - 1)]

\* mutant: _goToLocation ends with _sendInitialData
ClickGoToPosts(line, col, found) ==
    /\ UserCommand
    /\ view.open /\ view.booted
    /\ notice' = Posts([s \in DOMAIN stores |->
                          IF found
                          THEN <<[by |-> s, msg |-> "showTextDocument",
                                  at |-> [line |-> Max(0, line - 1), col |-> Max(0, col - 1)]]>>
                          ELSE <<Note(s, "Could not open file")>>])
    /\ toView' = toView \o Posts([s \in DOMAIN stores |-> <<stores[s].results>>])
    /\ UNCHANGED <<stores, currentPanel, view, disk>>

\* a 'Go To' click, _goToLocation in each store: the document opens at the
\* position (found), or opening it fails
ClickGoTo(line, col, found) ==
    /\ UserCommand
    /\ view.open /\ view.booted
    /\ notice' = Posts([s \in DOMAIN stores |->
                          IF found
                          THEN <<[by |-> s, msg |-> "showTextDocument",
                                  at |-> GoToPosition(line, col)]>>
                          ELSE <<Note(s, "Could not open file")>>])
    /\ UNCHANGED <<stores, currentPanel, view, toView, disk>>

NoTaskPending == \A s \in DOMAIN stores : stores[s].task = Idle

\* the 'Save Progress' click posts {command: 'save', data: results}; each store
\* enters _saveProgress(data) and awaits showSaveDialog
ClickSave ==
    /\ UserCommand
    /\ view.open /\ view.booted
    /\ NoTaskPending
    /\ stores' = [s \in DOMAIN stores |->
                    IF stores[s].listening
                    THEN [stores[s] EXCEPT !.task =
                            Task("save", view.results, stores[s].results)]
                    ELSE stores[s]]
    /\ notice' = <<>>
    /\ UNCHANGED <<currentPanel, view, toView, disk>>

\* the 'Load Progress' click posts {command: 'load'}; each store enters
\* _loadProgress and awaits showOpenDialog
ClickLoad ==
    /\ UserCommand
    /\ view.open /\ view.booted
    /\ NoTaskPending
    /\ stores' = [s \in DOMAIN stores |->
                    IF stores[s].listening
                    THEN [stores[s] EXCEPT !.task =
                            Task("load", JNull, stores[s].results)]
                    ELSE stores[s]]
    /\ notice' = <<>>
    /\ UNCHANGED <<currentPanel, view, toView, disk>>

\* showSaveDialog resolves with undefined
SaveCancel(s) ==
    /\ stores[s].task.op = "save"
    /\ stores' = [stores EXCEPT ![s].task = Idle]
    /\ notice' = <<Note(s, "dismissed")>>
    /\ UNCHANGED <<currentPanel, view, toView, disk, cmds>>

\* showSaveDialog resolves with a path and writeFile resolves (ok) or rejects
SaveWrite(s, ok) ==
    /\ stores[s].task.op = "save"
    /\ stores' = [stores EXCEPT ![s].task = Idle]
    /\ IF ok
       THEN /\ disk' = WrittenFile(Stringify(stores[s].task.data), stores[s].task.snap)
            /\ notice' = <<Note(s, "Semgrep triage progress saved successfully!")>>
       ELSE /\ disk' = disk
            /\ notice' = <<Note(s, "Failed to save progress")>>
    /\ UNCHANGED <<currentPanel, view, toView, cmds>>

\* the files the open dialog of _loadProgress offers
LoadableNames == DOMAIN ForeignFiles \cup (IF disk.readable THEN {SavedName} ELSE {})

FileNamed(name) == IF name = SavedName THEN disk ELSE ForeignFiles[name]

\* mutant: a dismissed dialog empties the store and posts the empty state
LoadCancelResets(s) ==
    /\ stores[s].task.op = "load"
    /\ stores' = [stores EXCEPT ![s].task = Idle, ![s].results = Ingest(<<>>)]
    /\ toView' = IF stores[s].listening THEN Append(toView, Ingest(<<>>)) ELSE toView
    /\ notice' = <<Note(s, "dismissed")>>
    /\ UNCHANGED <<currentPanel, view, disk, cmds>>

\* showOpenDialog resolves with undefined
LoadCancel(s) ==
    /\ stores[s].task.op = "load"
    /\ stores' = [stores EXCEPT ![s].task = Idle]
    /\ notice' = <<Note(s, "dismissed")>>
    /\ UNCHANGED <<currentPanel, view, toView, disk, cmds>>

\* mutant: the validation without `true ||`
LoadValidStrict(loadedData) ==
    /\ Truthy(GetProp(loadedData, "untriaged"))
    /\ Truthy(GetProp(loadedData, "issues"))
    /\ Truthy(GetProp(loadedData, "falsePositives"))

\* the `Basic validation` condition of _loadProgress
LoadValid(loadedData) ==
    \/ TRUE
    \/ /\ Truthy(GetProp(loadedData, "untriaged"))
       /\ Truthy(GetProp(loadedData, "issues"))
       /\ Truthy(GetProp(loadedData, "falsePositives"))

\* mutant: updateView is posted in a `finally`, so after a failure too
LoadReadPostsAlways(s, name, ok, gone) ==
    /\ stores[s].task.op = "load"
    /\ name \in LoadableNames
    /\ gone => ~stores[s].listening
    /\ LET f == FileNamed(name)
           parsed == Parse(f.text)
           loadedData == parsed.val
       IN IF ~ok \/ ~f.readable \/ ~parsed.ok
          THEN /\ stores' = [stores EXCEPT ![s].task = Idle]
               /\ notice' = <<Note(s, "Failed to load progress")>>
               /\ toView' = IF stores[s].listening
                            THEN Append(toView, stores[s].results) ELSE toView
          ELSE /\ stores' = [stores EXCEPT ![s].task = Idle,
                                           ![s].results = loadedData,
                                           ![s].loaded = TRUE]
               /\ toView' = IF stores[s].listening THEN Append(toView, loadedData) ELSE toView
               /\ notice' = IF gone
                            THEN <<Note(s, "Failed to load progress")>>
                            ELSE <<Note(s, "Semgrep triage progress loaded successfully!")>>
    /\ UNCHANGED <<currentPanel, view, disk, cmds>>

\* showOpenDialog resolves with the file `name`, readFile resolves (ok) or
\* rejects, and _loadProgress runs to its end.
\* `gone` is the outcome of this._panel.webview.postMessage on a panel that
\* has been disposed meanwhile: it throws (gone) or the message is dropped
LoadRead(s, name, ok, gone) ==
    /\ stores[s].task.op = "load"
    /\ name \in LoadableNames
    /\ gone => ~stores[s].listening
    /\ LET f == FileNamed(name)
           parsed == Parse(f.text)
           loadedData == parsed.val
       IN IF ~ok \/ ~f.readable \/ ~parsed.ok
          THEN /\ stores' = [stores EXCEPT ![s].task = Idle]
               /\ notice' = <<Note(s, "Failed to load progress")>>
               /\ toView' = toView
          ELSE IF LoadValid(loadedData)
          THEN /\ stores' = [stores EXCEPT ![s].task = Idle,
                                           ![s].results = loadedData,
                                           ![s].loaded = TRUE]
               /\ toView' = IF stores[s].listening THEN Append(toView, loadedData) ELSE toView
               /\ notice' = IF gone
                            THEN <<Note(s, "Failed to load progress")>>
                            ELSE <<Note(s, "Semgrep triage progress loaded successfully!")>>
          ELSE /\ stores' = [stores EXCEPT ![s].task = Idle]
               /\ notice' = <<Note(s, "Invalid progress file structure.")>>
               /\ toView' = toView
    /\ UNCHANGED <<currentPanel, view, disk, cmds>>

\* mutant: only the current store has an onDidDispose listener
ClosePanelCurrentOnly ==
    /\ UserCommand
    /\ view.open
    /\ currentPanel' = 0
    /\ stores' = [s \in DOMAIN stores |->
                    IF s = currentPanel THEN [stores[s] EXCEPT !.listening = FALSE]
                    ELSE stores[s]]
    /\ view' = ClosedView(view.panel)
    /\ toView' = <<>>
    /\ notice' = <<>>
    /\ UNCHANGED disk

\* the user closes the panel: onDidDispose runs dispose() of every store
\* registered on it
ClosePanel ==
    /\ UserCommand
    /\ view.open
    /\ currentPanel' = 0
    /\ stores' = [s \in DOMAIN stores |-> [stores[s] EXCEPT !.listening = FALSE]]
    /\ view' = ClosedView(view.panel)
    /\ toView' = <<>>
    /\ notice' = <<>>
    /\ UNCHANGED disk

Next ==
    \/ OpenResultsCancel
    \/ \E f \in ResultsFiles, ok \in BOOLEAN : OpenResults(f, ok)
    \/ OpenEmpty
    \/ ViewBoot
    \/ ViewReceive
    \/ \E id \in TriageIds, from \in Buckets, to \in Buckets : ClickTriage(id, from, to)
    \/ \E line \in Coords, col \in Coords, found \in BOOLEAN : ClickGoTo(line, col, found)
    \/ ClickSave
    \/ ClickLoad
    \/ \E s \in DOMAIN stores : SaveCancel(s)
    \/ \E s \in DOMAIN stores, ok \in BOOLEAN : SaveWrite(s, ok)
    \/ \E s \in DOMAIN stores : LoadCancel(s)
    \/ \E s \in DOMAIN stores, name \in LoadableNames, ok \in BOOLEAN, gone \in BOOLEAN :
          LoadRead(s, name, ok, gone)
    \/ ClosePanel

Spec == Init /\ [][Next]_vars
(***************************************************************************)
(* Properties.                                                             *)
(***************************************************************************)
\* res is a TriageState: an object whose three buckets are arrays of objects
WellFormed(res) ==
    /\ IsObj(res)
    /\ \A b \in Buckets :
          /\ b \in DOMAIN res.o
          /\ IsArr(res.o[b])
          /\ \A i \in DOMAIN res.o[b].a : IsObj(res.o[b].a[i])

BucketSeq(res, b) == res.o[b].a

AllFindings(res) ==
    BucketSeq(res, "untriaged") \o BucketSeq(res, "issues") \o BucketSeq(res, "falsePositives")

Count(seq, x) == Cardinality({i \in DOMAIN seq : seq[i] = x})

SameBag(p, q) == Len(p) = Len(q) /\ \A i \in DOMAIN p : Count(p, p[i]) = Count(q, p[i])

IdOf(finding) == IF "id" \in DOMAIN finding.o THEN finding.o["id"] ELSE Undefined

IdsDistinct(seq) == \A i, j \in DOMAIN seq : i # j => IdOf(seq[i]) # IdOf(seq[j])

HasId(seq, id) == \E i \in DOMAIN seq : IdOf(seq[i]) = JStr(id)

Noted(by, msg) == \E i \in DOMAIN notice : notice[i] = Note(by, msg)

\* the step is a user command that leaves the page, the files and
\* currentPanel alone and has an outcome in every listening store, as a click
\* on a triage button does
ClickStep ==
    /\ cmds' = cmds + 1 /\ view' = view /\ disk' = disk /\ currentPanel' = currentPanel
    /\ Len(notice') = Cardinality(Listeners)
    /\ \A i \in DOMAIN notice' : notice'[i].msg \in {"moved", "not found", "uncaught"}

\* C1: in a store whose _results comes from ingest and moves only (no load has
\* assigned it), every step, so every triage command with any id, from and to,
\* leaves the multiset of the findings of the three buckets as it was, and
\* leaves no id twice in the three buckets.
C1_MovePreservesFindings ==
    [][\A s \in DOMAIN stores :
         (~stores[s].loaded /\ ~stores'[s].loaded) =>
            \/ stores'[s].results = stores[s].results
            \/ /\ WellFormed(stores'[s].results)
               /\ SameBag(AllFindings(stores[s].results), AllFindings(stores'[s].results))
               /\ IdsDistinct(AllFindings(stores'[s].results))]_vars

\* a store that was never loaded has just moved a finding, and holds MaxLen
\* findings, not all of them in untriaged
C1_Witness ==
    \E s \in DOMAIN stores :
        /\ ~stores[s].loaded
        /\ Noted(s, "moved")
        /\ Len(AllFindings(stores[s].results)) = MaxLen
        /\ Len(BucketSeq(stores[s].results, "untriaged")) < MaxLen

\* C2: a triage command whose id is not in bucket `from` of a store holding a
\* TriageState leaves that store's _results as it was and throws nothing: a
\* step in which such a store's _results changes, or in which it throws, is no
\* triage command with an id that its bucket `from` lacks.
C2_AbsentIdIsNoOp ==
    [][ClickStep =>
        \A s \in Listeners :
           (\/ stores'[s].results # stores[s].results
            \/ \E i \in DOMAIN notice' : notice'[i] = Note(s, "uncaught")) =>
              \A id \in TriageIds, from \in Buckets, to \in Buckets :
                 (/\ WellFormed(stores[s].results)
                  /\ ~HasId(BucketSeq(stores[s].results, from), id)) =>
                     ~ClickTriage(id, from, to)]_vars

\* a store that holds findings has just returned early from a triage command
C2_Witness ==
    \E s \in DOMAIN stores :
        /\ Noted(s, "not found")
        /\ WellFormed(stores[s].results)
        /\ Len(AllFindings(stores[s].results)) >= 1
        /\ BucketSeq(stores[s].results, "issues") # <<>>

\* store s holds a TriageState with id in bucket b
HoldsId(s, b, id) ==
    /\ WellFormed(stores[s].results)
    /\ HasId(BucketSeq(stores[s].results, b), id)

\* seq without its element at position i
Without(seq, i) == SubSeq(seq, 1, i - 1) \o SubSeq(seq, i + 1, Len(seq))

\* the first position of id in seq
FirstAt(seq, id) ==
    CHOOSE i \in DOMAIN seq : IdOf(seq[i]) = JStr(id) /\ \A j \in 1..(i - 1) : IdOf(seq[j]) # JStr(id)

\* C3: a triage command whose id is in bucket `from` of a store holding a
\* TriageState takes that finding out of `from` and makes it the last element
\* of `to`, keeps the order of the other findings of both buckets, and leaves
\* the third bucket alone; with from = to the finding becomes the last
\* element of that bucket.
\* (the step is tested for being the command last, and first against the
\* command's outcome in store s alone, which the command implies: both tests
\* only spare work)
C3_MoveAppends ==
    [][ClickStep =>
        \A id \in TriageIds, from \in Buckets, to \in Buckets :
           \A s \in Listeners :
              HoldsId(s, from, id) =>
                 \/ LET pre  == stores[s].results
                        post == stores'[s].results
                        at   == FirstAt(BucketSeq(pre, from), id)
                        item == BucketSeq(pre, from)[at]
                        rest == Without(BucketSeq(pre, from), at)
                    IN /\ WellFormed(post)
                       /\ IF from = to
                          THEN BucketSeq(post, from) = Append(rest, item)
                          ELSE /\ BucketSeq(post, from) = rest
                               /\ BucketSeq(post, to) = Append(BucketSeq(pre, to), item)
                       /\ \A b \in Buckets \ {from, to} :
                             BucketSeq(post, b) = BucketSeq(pre, b)
                 \/ stores'[s].results # HandleTriage(stores[s].results, id, from, to).res
                 \/ ~ClickTriage(id, from, to)]_vars

\* a store has just moved a finding into issues, behind the finding that ingest
\* had placed after it
C3_Witness ==
    \E s \in DOMAIN stores :
        /\ Noted(s, "moved")
        /\ WellFormed(stores[s].results)
        /\ Len(BucketSeq(stores[s].results, "issues")) = 2
        /\ IdOf(BucketSeq(stores[s].results, "issues")[1]) = JStr("item-1")
        /\ IdOf(BucketSeq(stores[s].results, "issues")[2]) = JStr("item-0")

\* what ingest is to make of the i-th element of a results file: its fields,
\* with id item-<i-1>
ExpectedItem(i) ==
    JObj([k \in DOMAIN RawItem(i).o \cup {"id"} |->
            IF k = "id" THEN JStr("item-" \o ToString(i - 1)) ELSE RawItem(i).o[k]])

\* C4: opening a results file of n elements constructs a store whose untriaged
\* bucket holds the n elements in their order, the i-th (from 0) with id
\* item-<i>, all ids distinct, and whose other two buckets are empty.
C4_IngestAssignsIds ==
    [][\A n \in 0..MaxLen :
          (cmds' = cmds + 1 /\ stores' # stores /\ OpenResults(ResultsFile(n), TRUE)) =>
             /\ Len(stores') = Len(stores) + 1
             /\ LET new == stores'[Len(stores')].results
                IN /\ WellFormed(new)
                   /\ BucketSeq(new, "untriaged") = [i \in 1..n |-> ExpectedItem(i)]
                   /\ IdsDistinct(BucketSeq(new, "untriaged"))
                   /\ BucketSeq(new, "issues") = <<>>
                   /\ BucketSeq(new, "falsePositives") = <<>>]_vars

\* a store was just constructed from MaxLen elements, one of which carried an
\* id of its own
C4_Witness ==
    /\ currentPanel # 0
    /\ currentPanel = Len(stores)
    /\ ~view.booted
    /\ ~stores[currentPanel].loaded
    /\ \E i \in 1..MaxLen : "id" \in DOMAIN RawItem(i).o
    /\ BucketSeq(stores[currentPanel].results, "untriaged")
          = [i \in 1..MaxLen |-> ExpectedItem(i)]
    /\ LET new == stores[Len(stores)].results
       IN /\ Len(BucketSeq(new, "untriaged")) = MaxLen
          /\ IdOf(BucketSeq(new, "untriaged")[MaxLen]) = JStr(ItemId(MaxLen - 1))
          /\ \E i \in 1..MaxLen : "id" \in DOMAIN RawItem(i).o

\* store s finishes a load in this step
LoadEnds(s) ==
    /\ stores[s].task.op = "load"
    /\ stores'[s].task = Idle

\* C5: when a store that was never loaded loads the file a save wrote, and its
\* _results is what the saving store's _results was when it took up that save,
\* the load leaves _results as it was.
C5_SaveLoadRoundTrip ==
    [][\A s \in DOMAIN stores :
         (/\ LoadEnds(s)
          /\ ~stores[s].loaded
          /\ disk.readable
          /\ disk.src = stores[s].results
          /\ \E gone \in BOOLEAN : LoadRead(s, SavedName, TRUE, gone)) =>
             stores'[s].results = stores[s].results]_vars

\* C6: the document a save writes holds the _results of the store that writes
\* it, as it was when the store took up the save command or as it is when the
\* file is written.
C6_SaveWritesStoreState ==
    [][\A s \in DOMAIN stores :
         SaveWrite(s, TRUE) =>
            \/ disk'.text = Stringify(stores[s].task.snap)
            \/ disk'.text = Stringify(stores[s].results)]_vars

ShowsOnly(by, msg) == notice' = <<Note(by, msg)>>

\* C7: an open-results command whose file cannot be read, is not JSON, or holds
\* no `results` array constructs no store, leaves currentPanel, the page and
\* every store as they are, and shows an error.
C7_BadResultsRejected ==
    [][\A f \in ResultsFiles, ok \in BOOLEAN :
          (OpenResults(f, ok) /\ (~ok \/ f \in BadResultsFiles)) =>
             /\ stores' = stores
             /\ currentPanel' = currentPanel
             /\ view' = view
             /\ toView' = toView
             /\ \/ ShowsOnly(0, "Failed to read or parse file")
                \/ ShowsOnly(0, "Invalid Semgrep results format")]_vars

\* a document without `results` array was just rejected while a session with a
\* triaged finding is open
C7_Witness ==
    /\ Noted(0, "Invalid Semgrep results format")
    /\ currentPanel # 0
    /\ BucketSeq(stores[currentPanel].results, "issues") # <<>>

\* C8: a load whose read fails or whose file is not JSON, and a save whose write
\* fails, is reported by the handler's own error message, leaves every store's
\* _results as it was, and posts no updateView.
C8_FailedFileCommandFrame ==
    [][\A s \in DOMAIN stores :
         /\ \A name \in LoadableNames, ok \in BOOLEAN, gone \in BOOLEAN :
               (LoadEnds(s) /\ (~ok \/ name = "garbage") /\ LoadRead(s, name, ok, gone)) =>
                  /\ \A r \in DOMAIN stores : stores'[r].results = stores[r].results
                  /\ toView' = toView
                  /\ ShowsOnly(s, "Failed to load progress")
         /\ SaveWrite(s, FALSE) =>
               /\ \A r \in DOMAIN stores : stores'[r].results = stores[r].results
               /\ toView' = toView
               /\ disk' = disk
               /\ ShowsOnly(s, "Failed to save progress")]_vars

\* a load has just failed in a store whose panel is open and which holds a
\* triaged finding
C8_Witness ==
    \E s \in DOMAIN stores :
        /\ Noted(s, "Failed to load progress")
        /\ stores[s].listening
        /\ ~stores[s].loaded
        /\ BucketSeq(stores[s].results, "issues") # <<>>

\* C9: a triage command that throws in a store leaves that store's _results as
\* it was.
C9_FailedTriageFrame ==
    [][ClickStep =>
        \A s \in DOMAIN stores :
           (\E i \in DOMAIN notice' : notice'[i] = Note(s, "uncaught")) =>
              stores'[s].results = stores[s].results]_vars

\* store s finishes, in this step, a load of the file `name`, which was read
\* and is JSON
LoadParses(s, name) ==
    /\ LoadEnds(s)
    /\ name # "garbage"
    /\ \E gone \in BOOLEAN : LoadRead(s, name, TRUE, gone)

\* the document in the file `name`
ChosenDocument(name) == Parse(FileNamed(name).text).val

NeverInvalid == \A i \in DOMAIN notice' : notice'[i].msg # "Invalid progress file structure."

BucketOrNone(res, b) ==
    IF IsObj(res) /\ b \in DOMAIN res.o /\ IsArr(res.o[b]) THEN res.o[b].a ELSE <<>>

\* the findings of res that are objects, bucket after bucket
FindingsOf(res) ==
    SelectSeq(BucketOrNone(res, "untriaged") \o BucketOrNone(res, "issues")
                \o BucketOrNone(res, "falsePositives"),
              IsObj)

\* C11: in every state, in every store, no id occurs in two buckets and no id
\* occurs twice in one bucket.
C11_BucketsPartition ==
    \A s \in DOMAIN stores : IdsDistinct(FindingsOf(stores[s].results))

\* renderAllTables has drawn the table of bucket b: renderTable runs for
\* untriaged, issues, falsePositives in this order and throws at the first
\* bucket that is no array
Rendered(b) ==
    /\ IsObj(view.results)
    /\ \A c \in Buckets :
          (c = b \/ (c = "untriaged") \/ (c = "issues" /\ b = "falsePositives")) =>
             (c \in DOMAIN view.results.o /\ IsArr(view.results.o[c]))

\* the page shows a button that sends triage {id, from, to}: a row of the
\* table `from` for an item with this id, and a button for another bucket
PageOffers(id, from, to) ==
    /\ view.open /\ view.booted
    /\ to # from
    /\ Rendered(from)
    /\ \E i \in DOMAIN view.results.o[from].a :
          LET item == view.results.o[from].a[i]
          IN IsObj(item) /\ "id" \in DOMAIN item.o /\ item.o["id"] = JStr(id)

\* C12: while a store's save or load is pending (its handler has started and
\* has not finished), no triage command sent by a button of the page changes
\* that store's _results.
C12_NoMoveDuringFileCommand ==
    [][\A s \in DOMAIN stores :
         (/\ stores[s].task.op # "none"
          /\ stores'[s].task = stores[s].task
          /\ stores'[s].results # stores[s].results) =>
            \A id \in TriageIds, from \in Buckets, to \in Buckets :
               PageOffers(id, from, to) => ~ClickTriage(id, from, to)]_vars

\* C13: a triage command sent by a button of the page that changes the
\* _results of a listening store makes that store post, in the same step, an
\* updateView that carries its new _results.
C13_MutationPushesUpdate ==
    [][\A s \in Listeners :
         (/\ ClickStep
          /\ stores'[s].results # stores[s].results
          /\ ~\E i \in (Len(toView) + 1)..Len(toView') : toView'[i] = stores'[s].results) =>
            \A id \in TriageIds, from \in Buckets, to \in Buckets :
               PageOffers(id, from, to) => ~ClickTriage(id, from, to)]_vars

\* C14: a step in which the dialog of open-results, of a save or of a load is
\* dismissed constructs no store, leaves every store's _results, the file, the
\* page, currentPanel and the queue of updateView messages as they were.
C14_DismissedDialogFrame ==
    [][(\/ OpenResultsCancel
        \/ \E s \in DOMAIN stores : SaveCancel(s) \/ LoadCancel(s)) =>
          /\ DOMAIN stores' = DOMAIN stores
          /\ \A s \in DOMAIN stores :
                /\ stores'[s].results = stores[s].results
                /\ stores'[s].loaded = stores[s].loaded
                /\ stores'[s].listening = stores[s].listening
          /\ disk' = disk
          /\ toView' = toView
          /\ view' = view
          /\ currentPanel' = currentPanel]_vars

\* a store that holds a triaged finding has just had its save or load dialog
\* dismissed
C14_Witness ==
    \E s \in DOMAIN stores :
        /\ Noted(s, "dismissed")
        /\ stores[s].listening
        /\ BucketOrNone(stores[s].results, "issues") # <<>>

\* the step is a user command whose outcome is that of _goToLocation
GoToStep ==
    /\ cmds' = cmds + 1
    /\ notice' # <<>>
    /\ notice'[1].msg \in {"showTextDocument", "Could not open file"}

\* C15: a goTo command, whether the document opens or not, leaves every store,
\* the queue of updateView messages, the page, the file and currentPanel as
\* they were, so it has no effect on what any triage command before or after
\* it does.
C15_GoToFrame ==
    [][GoToStep =>
        \/ /\ stores' = stores
           /\ toView' = toView
           /\ view' = view
           /\ disk' = disk
           /\ currentPanel' = currentPanel
        \/ \A line \in Coords, col \in Coords, found \in BOOLEAN :
              ~ClickGoTo(line, col, found)]_vars

\* a store that holds a triaged finding has just failed to open the file of a
\* goTo command
C15_Witness ==
    \E s \in DOMAIN stores :
        /\ Noted(s, "Could not open file")
        /\ BucketOrNone(stores[s].results, "issues") # <<>>
        /\ BucketOrNone(stores[s].results, "untriaged") # <<>>

\* C16: an open command with a results array of n elements (n = 0 for an empty
\* session) makes a newly constructed store the current one, holding the n
\* elements in untriaged and nothing in issues and falsePositives; when a
\* panel exists the new store is on that same panel, otherwise on a panel no
\* store had before.
C16_OpenReplacesSession ==
    [][\A n \in 0..MaxLen :
         (/\ cmds' = cmds + 1
          /\ notice' = <<>>
          /\ OpenResults(ResultsFile(n), TRUE) \/ (n = 0 /\ OpenEmpty)) =>
            /\ currentPanel' \in DOMAIN stores' \ DOMAIN stores
            /\ currentPanel' = Len(stores')
            /\ view'.open
            /\ LET new == stores'[currentPanel']
               IN /\ new.listening
                  /\ WellFormed(new.results)
                  /\ BucketSeq(new.results, "untriaged") = [i \in 1..n |-> ExpectedItem(i)]
                  /\ BucketSeq(new.results, "issues") = <<>>
                  /\ BucketSeq(new.results, "falsePositives") = <<>>
                  /\ view'.panel = new.panel
                  /\ IF currentPanel # 0
                     THEN new.panel = stores[currentPanel].panel /\ new.panel = view.panel
                     ELSE \A s \in DOMAIN stores : stores[s].panel # new.panel]_vars

\* a session with a triaged finding has just been replaced, on the same panel,
\* by a fresh session
C16_Witness ==
    /\ Len(stores) = 2
    /\ currentPanel = 2
    /\ stores[1].panel = stores[2].panel
    /\ ~view.booted
    /\ BucketOrNone(stores[1].results, "issues") # <<>>
    /\ BucketOrNone(stores[2].results, "untriaged") # <<>>
    /\ BucketOrNone(stores[2].results, "issues") = <<>>

\* stores whose _saveProgress or _loadProgress is pending
Pending == {s \in DOMAIN stores : stores[s].task.op # "none"}

\* C17: only the current store reacts to the messages of the page, so a save
\* or load click starts one handler and opens one dialog: since such a click is
\* made only while no handler is pending (NoTaskPending), at most one handler
\* is ever pending.
C17_OnlyCurrentStoreReacts == Cardinality(Pending) <= 1

\* C18: whenever the panel is disposed no store is current, no store has a
\* listener left and no updateView is queued; while it is disposed a store's
\* _results changes only when a load that was already pending finishes, and a
\* store constructed then is the current one on a panel no store had before.
\* The close of a panel that a reopen had given a second store is included.
C18_DisposeEndsSession ==
    [][/\ ~view'.open =>
            /\ currentPanel' = 0
            /\ \A s \in DOMAIN stores' : ~stores'[s].listening
            /\ toView' = <<>>
       /\ ~view.open =>
            /\ \A s \in DOMAIN stores :
                  stores'[s].results # stores[s].results => LoadEnds(s)
            /\ Len(stores') > Len(stores) =>
                  /\ currentPanel' = Len(stores')
                  /\ view'.open
                  /\ view'.panel = stores'[currentPanel'].panel
                  /\ \A s \in DOMAIN stores : stores[s].panel # stores'[currentPanel'].panel]_vars

\* the panel has just been closed after a reopen had given it a second store
C18_Witness ==
    /\ ~view.open
    /\ currentPanel = 0
    /\ Len(stores) = 2
    /\ stores[1].panel = stores[2].panel
    /\ view.panel = stores[2].panel
    /\ ~stores[1].listening /\ ~stores[2].listening

\* the 0-indexed editor coordinate of a 1-indexed coordinate, never negative
EditorCoord(c) == IF c >= 1 THEN c - 1 ELSE 0

\* C19: a goTo command with line and col whose document opens selects the
\* position (max(0, line - 1), max(0, col - 1)) in every store that handles
\* it: neither coordinate is negative.
C19_GoToPosition ==
    [][GoToStep =>
        \A line \in Coords, col \in Coords :
           ClickGoTo(line, col, TRUE) =>
              \A i \in DOMAIN notice' :
                 /\ notice'[i].at = [line |-> EditorCoord(line), col |-> EditorCoord(col)]
                 /\ notice'[i].at.line >= 0
                 /\ notice'[i].at.col >= 0]_vars

\* a document has just been opened at line 0, column 1
C19_Witness ==
    /\ notice # <<>>
    /\ notice[1].msg = "showTextDocument"
    /\ notice[1].at = [line |-> 0, col |-> 1]

====
